---- MODULE Spec2Model ----
(***************************************************************************)
(* Model of the Railway template metrics collector (collect_metrics.py):   *)
(* the MetricsDatabase write steps, the derived-metrics statement and the  *)
(* run of main() that drives them.                                         *)
(*                                                                         *)
(* Values that SQL or JSON may leave null are boxed: <<>> is NULL / None   *)
(* and <<n>> is the number n.  Timestamps are seconds.  Percentages are    *)
(* kept in hundredths of a percent (66.67 is 6667).                        *)
(***************************************************************************)
EXTENDS Integers, Sequences, FiniteSets, TLC

VARIABLES
    template_snapshots,        \* table template_snapshots: a set of rows
    template_metrics_derived,  \* table template_metrics_derived: a set of rows
    earnings_snapshots,        \* table earnings_snapshots: a set of rows
    joined,                    \* history: the rows the last derived-metrics statement joined
    ret,                       \* return value of the last MetricsDatabase call
    call,                      \* history: arguments of the last MetricsDatabase call
    templates,                 \* the fetched list of template records
    earnings_data,             \* the fetched earnings record
    start_time,                \* main(): start_time, the run's collection timestamp
    now,                        \* the wall clock
    pc,                        \* main(): the step the run is at
    steps,                     \* history: the steps the run has executed, in order
    exit_code,                 \* process exit status of the run, NULL while it runs
    warned,                    \* the run logged the derived-metrics warning
    met,                       \* history: what each executed step met, in the order of steps
    at_start                   \* history: the tables and start_time as the run started

vars == <<template_snapshots, template_metrics_derived, earnings_snapshots, joined, ret,
          call, templates, earnings_data, start_time, now, pc, steps, exit_code, warned,
          met, at_start>>

dbvars == <<template_snapshots, template_metrics_derived, earnings_snapshots>>
runvars == <<templates, earnings_data, start_time, now, pc, steps, exit_code, warned,
             met, at_start>>

-----------------------------------------------------------------------------
(* Boxed values *)

NULL == <<>>
Some(n) == <<n>>
IsNull(v) == v = NULL
Val(v) == v[1]

\* SQL COALESCE(a, b)
COALESCE(a, b) == IF IsNull(a) THEN b ELSE a

\* SQL a - b: NULL when either operand is NULL
SqlMinus(a, b) == IF IsNull(a) \/ IsNull(b) THEN NULL ELSE Some(Val(a) - Val(b))

\* The payout arguments are Python ints of minor currency units (cents) and the
\* columns that hold them are integer columns of schema.sql.
PayoutColumnsAreInteger == TRUE

\* SQL a / n with an integer literal n: on integer operands the quotient is
\* truncated toward zero; NULL when a is NULL.
SqlDiv(a, n) ==
    IF IsNull(a) THEN NULL
    ELSE CASE PayoutColumnsAreInteger ->
            Some(IF Val(a) >= 0 THEN Val(a) \div n ELSE -((-Val(a)) \div n))

-----------------------------------------------------------------------------
(* Time *)

SecondsPerDay == 24 * 60 * 60
Interval24h == SecondsPerDay
Interval7d == 7 * SecondsPerDay
Interval30d == 30 * SecondsPerDay
Days7 == 7
Days30 == 30

-----------------------------------------------------------------------------
(* Fetched template records: JSON objects.  A key may be missing from the  *)
(* object, or present with the value null (None).                          *)

CounterKeys == {"projects", "activeProjects", "recentProjects", "totalPayout"}

\* dict.get(key, default)
Get(d, key, default) == IF key \in DOMAIN d THEN d[key] ELSE default

\* the record `full` with the keys in `missing` left out of the object
Without(full, missing) == [k \in (DOMAIN full) \ missing |-> full[k]]

\* round(num / den * 100, 2), in hundredths of a percent.  Python rounds the
\* quotient to the nearest hundredth, a tie going to the even neighbour.
\* (Truncate2Pct, like CeilDiv, InsertOnConflictDoUpdate, InWindowOpenBelow and
\* the other variants written before a definition, is a faulty version of it
\* that the properties below must tell apart from it.)
Truncate2Pct(num, den) == (num * 10000) \div den
Round2Pct(num, den) ==
    LET n == num * 10000
        q == n \div den
        r == n % den
    IN  IF 2 * r < den THEN q
        ELSE IF 2 * r > den THEN q + 1
        ELSE IF q % 2 = 0 THEN q ELSE q + 1

\* total_payout // active_projects
CeilDiv(a, b) == (a + b - 1) \div b
FloorDiv(a, b) == a \div b

\* The loop body raises TypeError when None meets `>`, `/` or `//`.
TypeError(template) ==
    LET projects == Get(template, "projects", Some(0))
        active_projects == Get(template, "activeProjects", Some(0))
        recent_projects == Get(template, "recentProjects", Some(0))
        total_payout == Get(template, "totalPayout", Some(0))
    IN  \/ IsNull(projects)                                  \* projects > 0
        \/ IsNull(active_projects)                           \* active_projects > 0
        \/ /\ Val(active_projects) > 0
           /\ IsNull(total_payout) \/ IsNull(recent_projects)  \* None // n, None / n

\* retention_rate = (active_projects / projects * 100) if projects > 0 else 0
retention_rate(projects, active_projects) ==
    IF projects > 0 THEN Round2Pct(active_projects, projects) ELSE 0

\* revenue_per_active = (total_payout // active_projects) if active_projects > 0 else 0
revenue_per_active(total_payout, active_projects) ==
    IF active_projects > 0 THEN FloorDiv(Val(total_payout), active_projects) ELSE 0

\* growth_momentum = (recent_projects / active_projects * 100) if active_projects > 0 else 0
growth_momentum(recent_projects, active_projects) ==
    IF active_projects > 0 THEN Round2Pct(Val(recent_projects), active_projects) ELSE 0

\* One tuple of template_data: the row built from a record that raised no TypeError.
SnapshotRow(template, collected_at) ==
    LET projects == Get(template, "projects", Some(0))
        active_projects == Get(template, "activeProjects", Some(0))
        recent_projects == Get(template, "recentProjects", Some(0))
        total_payout == Get(template, "totalPayout", Some(0))
    IN  [collected_at |-> collected_at,
         template_id |-> template.id,
         projects |-> projects,
         active_projects |-> active_projects,
         recent_projects |-> recent_projects,
         total_payout |-> total_payout,
         retention_rate |-> retention_rate(Val(projects), Val(active_projects)),
         revenue_per_active |-> revenue_per_active(total_payout, Val(active_projects)),
         growth_momentum |-> growth_momentum(recent_projects, Val(active_projects))]

HasNullCounter(row) ==
    \/ IsNull(row.projects) \/ IsNull(row.active_projects)
    \/ IsNull(row.recent_projects) \/ IsNull(row.total_payout)

\* The conflict target of the INSERT: UNIQUE (collected_at, template_id).
Conflicts(table, row) ==
    \E old \in table : old.collected_at = row.collected_at /\ old.template_id = row.template_id

\* INSERT one row ... ON CONFLICT (collected_at, template_id) DO NOTHING
InsertOnConflictDoUpdate(table, row) ==
    {old \in table : ~(old.collected_at = row.collected_at /\ old.template_id = row.template_id)}
        \cup {row}
InsertNoConflictClause(table, row) == table \cup {row}
InsertOnConflictDoNothing(table, row) ==
    IF Conflicts(table, row) THEN table ELSE table \cup {row}

\* execute_values(cursor, query, template_data): the rows in list order
RECURSIVE ExecuteValues(_, _)
ExecuteValues(table, rows) ==
    IF rows = <<>> THEN table
    ELSE ExecuteValues(InsertOnConflictDoNothing(table, Head(rows)), Tail(rows))

\* Whether the counter columns of template_snapshots accept NULL is declared in
\* schema.sql: either declaration is possible.
CounterColumnsNullable == BOOLEAN

\* MetricsDatabase.insert_template_snapshots(templates, collected_at).
\* db_error: the database raises on the statement or the commit.
insert_template_snapshots_partial(tpls, collected_at, db_error) ==
    LET good == {n \in 0..Len(tpls) : \A i \in 1..n : ~TypeError(tpls[i])}
        reached == CHOOSE n \in good : \A m \in good : m <= n
        template_data == [i \in 1..reached |-> SnapshotRow(tpls[i], collected_at)]
    IN  /\ template_snapshots' = ExecuteValues(template_snapshots, template_data)
        /\ ret' = (reached = Len(tpls) /\ ~db_error)
insert_template_snapshots(tpls, collected_at, db_error) ==
    \E nullable \in CounterColumnsNullable :
        LET raised == \E i \in 1..Len(tpls) : TypeError(tpls[i])
            template_data == [i \in 1..Len(tpls) |-> SnapshotRow(tpls[i], collected_at)]
            rejected == ~nullable /\ \E i \in 1..Len(tpls) : HasNullCounter(template_data[i])
        IN  IF raised \/ db_error \/ rejected
            THEN /\ template_snapshots' = template_snapshots      \* rollback
                 /\ ret' = FALSE
            ELSE /\ template_snapshots' = ExecuteValues(template_snapshots, template_data)
                 /\ ret' = TRUE                                   \* commit

-----------------------------------------------------------------------------
(* The derived-metrics statement *)

\* WHERE collected_at >= %s - INTERVAL '...' AND collected_at < %s
InWindowFirstDay(t, collected_at, interval) ==
    t >= collected_at - interval /\ t < collected_at - interval + Interval24h
InWindowClosedAbove(t, collected_at, interval) == t >= collected_at - interval /\ t <= collected_at
InWindowOpenBelow(t, collected_at, interval) == t > collected_at - interval /\ t < collected_at
InWindow(t, collected_at, interval) == t >= collected_at - interval /\ t < collected_at

\* ORDER BY collected_at DESC LIMIT 1: at most one row
OrderAscLimit1(rows) == {s \in rows : \A o \in rows : o.collected_at >= s.collected_at}
OrderDescLimit1(rows) == {s \in rows : \A o \in rows : o.collected_at <= s.collected_at}

\* The lateral subquery of one horizon: the rows it returns for `current`
PrevAnyTemplate(current, collected_at, interval) ==
    OrderDescLimit1({s \in template_snapshots :
                        InWindow(s.collected_at, collected_at, interval)})
Prev(current, collected_at, interval) ==
    OrderDescLimit1({s \in template_snapshots :
                        /\ s.template_id = current.template_id
                        /\ InWindow(s.collected_at, collected_at, interval)})

\* LEFT JOIN ... ON true: a column of the joined row, NULL when no row was joined
Col(prev, name) == IF prev = {} THEN NULL ELSE (CHOOSE s \in prev : TRUE)[name]

\* FROM template_snapshots current LEFT JOIN LATERAL ... WHERE current.collected_at = %s
JoinedAllSnapshots(collected_at) ==
    {[current |-> c,
      prev_24h |-> Prev(c, collected_at, Interval24h),
      prev_7d |-> Prev(c, collected_at, Interval7d),
      prev_30d |-> Prev(c, collected_at, Interval30d)] : c \in template_snapshots}
Joined(collected_at) ==
    {[current |-> c,
      prev_24h |-> Prev(c, collected_at, Interval24h),
      prev_7d |-> Prev(c, collected_at, Interval7d),
      prev_30d |-> Prev(c, collected_at, Interval30d)] :
        c \in {s \in template_snapshots : s.collected_at = collected_at}}

\* current.x - COALESCE(prev.x, current.x)
DeltaNoFallback(cur, prev) == SqlMinus(cur, prev)
DeltaSwapped(cur, prev) == SqlMinus(COALESCE(prev, cur), cur)
Delta(cur, prev) == SqlMinus(cur, COALESCE(prev, cur))

\* CASE WHEN prev.total_payout IS NOT NULL
\*      THEN (current.total_payout - prev.total_payout) / days ELSE 0 END
AvgDailyRevenue(cur, prev, days) ==
    IF ~IsNull(prev) THEN SqlDiv(SqlMinus(cur, prev), days) ELSE Some(0)

\* The SELECT list: the derived row of one joined row.  profitability_score is
\* the result of a stored function of the schema and is left out.
DerivedRow(j, collected_at, run) ==
    [run |-> run,
     calculated_at |-> collected_at,
     template_id |-> j.current.template_id,
     revenue_growth_24h |-> Delta(j.current.total_payout, Col(j.prev_24h, "total_payout")),
     revenue_growth_7d |-> Delta(j.current.total_payout, Col(j.prev_7d, "total_payout")),
     revenue_growth_30d |-> Delta(j.current.total_payout, Col(j.prev_30d, "total_payout")),
     active_projects_change_24h |->
        Delta(j.current.active_projects, Col(j.prev_24h, "active_projects")),
     active_projects_change_7d |->
        Delta(j.current.active_projects, Col(j.prev_7d, "active_projects")),
     active_projects_change_30d |->
        Delta(j.current.active_projects, Col(j.prev_30d, "active_projects")),
     avg_daily_revenue_7d |->
        AvgDailyRevenue(j.current.total_payout, Col(j.prev_7d, "total_payout"), Days7),
     avg_daily_revenue_30d |->
        AvgDailyRevenue(j.current.total_payout, Col(j.prev_30d, "total_payout"), Days30)]

\* The statements that have inserted derived rows so far; a row carries the
\* ordinal of its statement, so that two statements never share a row.
Runs == {d.run : d \in template_metrics_derived}
LastRun == IF Runs = {} THEN 0 ELSE CHOOSE r \in Runs : \A o \in Runs : o <= r

\* MetricsDatabase.calculate_derived_metrics(collected_at).
\* db_error: the database raises on the statement or the commit.
calculate_derived_metrics(collected_at, db_error) ==
    IF db_error
    THEN /\ template_metrics_derived' = template_metrics_derived   \* rollback
         /\ joined' = joined
         /\ ret' = FALSE
    ELSE /\ template_metrics_derived' = template_metrics_derived \cup
                {DerivedRow(j, collected_at, LastRun + 1) : j \in Joined(collected_at)}
         /\ joined' = Joined(collected_at)
         /\ ret' = TRUE                                            \* commit

-----------------------------------------------------------------------------
(* The earnings snapshot *)

\* MetricsDatabase.insert_earnings_snapshot(earnings_data, collected_at): a plain
\* INSERT of one row; seq stands for the row's identity in the table.
insert_earnings_snapshot_uncommitted(data, collected_at, db_error) ==
    /\ earnings_snapshots' = earnings_snapshots
    /\ ret' = ~db_error
insert_earnings_snapshot_stamped_by_database(data, collected_at, db_error) ==
    IF db_error
    THEN /\ earnings_snapshots' = earnings_snapshots
         /\ ret' = FALSE
    ELSE /\ earnings_snapshots' = earnings_snapshots \cup
                {[seq |-> Cardinality(earnings_snapshots) + 1,
                  collected_at |-> collected_at + 1,
                  lifetime_earnings |-> Get(data, "lifetimeEarnings", Some(0))]}
         /\ ret' = TRUE
insert_earnings_snapshot(data, collected_at, db_error) ==
    IF db_error
    THEN /\ earnings_snapshots' = earnings_snapshots               \* rollback
         /\ ret' = FALSE
    ELSE /\ earnings_snapshots' = earnings_snapshots \cup
                {[seq |-> Cardinality(earnings_snapshots) + 1,
                  collected_at |-> collected_at,
                  lifetime_earnings |-> Get(data, "lifetimeEarnings", Some(0))]}
         /\ ret' = TRUE                                            \* commit

-----------------------------------------------------------------------------
(* History of the MetricsDatabase calls *)

NoCall ==
    [op |-> "none", collected_at |-> 0, ids |-> {}, db_error |-> FALSE,
     rows_before |-> 0, repeat |-> FALSE, overwrite |-> FALSE]

Ids(tpls) == {tpls[i].id : i \in 1..Len(tpls)}

\* Records the call being made: its arguments, the number of template snapshot
\* rows before it, whether it repeats the timestamp and entity set of the call
\* before it, which committed (repeat), and whether one of its records meets a
\* stored row of the same key that holds other values (overwrite).
Called(op, collected_at, tpls, db_error) ==
    call' = [op |-> op, collected_at |-> collected_at, ids |-> Ids(tpls),
             db_error |-> db_error,
             rows_before |-> Cardinality(template_snapshots),
             repeat |-> /\ call.op = op /\ ret
                        /\ call.collected_at = collected_at /\ call.ids = Ids(tpls),
             overwrite |-> \E i \in 1..Len(tpls) : \E old \in template_snapshots :
                              /\ old.collected_at = collected_at
                              /\ old.template_id = tpls[i].id
                              /\ ~TypeError(tpls[i])
                              /\ old # SnapshotRow(tpls[i], collected_at)]

-----------------------------------------------------------------------------
(* Initial state: empty tables, no run started *)

\* The tables and the collection timestamp, as a run finds them when it starts
AtStart(t) ==
    [template_snapshots |-> template_snapshots,
     template_metrics_derived |-> template_metrics_derived,
     earnings_snapshots |-> earnings_snapshots,
     start_time |-> t]

Init ==
    /\ template_snapshots = {}
    /\ template_metrics_derived = {}
    /\ earnings_snapshots = {}
    /\ joined = {}
    /\ ret = TRUE
    /\ call = NoCall
    /\ templates = <<>>
    /\ earnings_data = <<>>
    /\ start_time = 0
    /\ now = 0
    /\ pc = "idle"
    /\ steps = <<>>
    /\ exit_code = NULL
    /\ warned = FALSE
    /\ met = <<>>
    /\ at_start = AtStart(0)

TemplateIds == {"a", "b"}

\* A fetched record with all four counters present
Record(id, projects, active, recent, payout) ==
    [id |-> id, projects |-> Some(projects), activeProjects |-> Some(active),
     recentProjects |-> Some(recent), totalPayout |-> Some(payout)]

-----------------------------------------------------------------------------
(* SpecTrend: snapshots written at the boundaries of the three lookback    *)
(* windows, and the derived-metrics statement run over them.               *)

MaxSnapshots == 3
MaxCalculations == 1

\* 0 and 1 lie one second outside and exactly on the lower boundary of the
\* window of each of the three later timestamps.
TrendTimes == {0, 1, Interval24h + 1, Interval7d + 1, Interval30d + 1}

TrendRecords ==
    {Record("a", 2, 1, 0, 300), Record("a", 2, 2, 0, 500), Record("b", 2, 2, 0, 500)}

\* Timestamps are readings of the clock: no call carries a timestamp older than
\* one already stored.
TrendInsert ==
    \E tpl \in TrendRecords, t \in TrendTimes :
        /\ \A s \in template_snapshots : s.collected_at <= t
        /\ \A d \in template_metrics_derived : d.calculated_at <= t
        /\ Cardinality(template_snapshots) < MaxSnapshots
        /\ insert_template_snapshots(<<tpl>>, t, FALSE)
        /\ Called("insert_template_snapshots", t, <<tpl>>, FALSE)
        /\ UNCHANGED <<template_metrics_derived, earnings_snapshots, joined, runvars>>

TrendCalculate ==
    \E t \in TrendTimes, db_error \in BOOLEAN :
        /\ \A s \in template_snapshots : s.collected_at <= t
        /\ \A d \in template_metrics_derived : d.calculated_at <= t
        /\ LastRun < MaxCalculations
        /\ calculate_derived_metrics(t, db_error)
        /\ Called("calculate_derived_metrics", t, <<>>, db_error)
        /\ UNCHANGED <<template_snapshots, earnings_snapshots, runvars>>

TrendNext == TrendInsert \/ TrendCalculate

SpecTrend == Init /\ [][TrendNext]_vars

-----------------------------------------------------------------------------
(* SpecWriter: insert_template_snapshots called again and again, with      *)
(* timestamps and entities that repeat.                                    *)

MaxBatch == 2

WriterTimes == {1, Interval24h + 1}

WriterRecords == TrendRecords

RECURSIVE SeqsUpTo(_, _)
SeqsUpTo(S, n) ==
    IF n = 0 THEN {<<>>}
    ELSE LET shorter == SeqsUpTo(S, n - 1)
         IN  shorter \cup {Append(q, x) : q \in shorter, x \in S}

WriterBatches == SeqsUpTo(WriterRecords, MaxBatch)

WriterInsert ==
    \E batch \in WriterBatches, t \in WriterTimes, db_error \in BOOLEAN :
        /\ insert_template_snapshots(batch, t, db_error)
        /\ Called("insert_template_snapshots", t, batch, db_error)
        /\ UNCHANGED <<template_metrics_derived, earnings_snapshots, joined, runvars>>

WriterNext == WriterInsert

SpecWriter == Init /\ [][WriterNext]_vars

-----------------------------------------------------------------------------
(* SpecRatio: one fetched record, with counters that are numbers, null or  *)
(* missing, written by insert_template_snapshots.                          *)

MaxCount == 3

Counts == {Some(n) : n \in 0..MaxCount} \cup {NULL}
Payouts == {Some(0), Some(500), NULL}

RatioRecords ==
    {Without([id |-> "a", projects |-> p, activeProjects |-> a,
              recentProjects |-> r, totalPayout |-> t], missing) :
        p \in Counts, a \in Counts, r \in Counts, t \in Payouts,
        missing \in SUBSET CounterKeys}

InitRatio ==
    /\ template_snapshots = {}
    /\ template_metrics_derived = {}
    /\ earnings_snapshots = {}
    /\ joined = {}
    /\ ret = TRUE
    /\ call = NoCall
    /\ templates \in {<<rec>> : rec \in RatioRecords}
    /\ earnings_data = <<>>
    /\ start_time = 1
    /\ now = 1
    /\ pc = "idle"
    /\ steps = <<>>
    /\ exit_code = NULL
    /\ warned = FALSE
    /\ met = <<>>
    /\ at_start = AtStart(1)

RatioInsert ==
    \E db_error \in BOOLEAN :
        /\ insert_template_snapshots(templates, start_time, db_error)
        /\ Called("insert_template_snapshots", start_time, templates, db_error)
        /\ UNCHANGED <<template_metrics_derived, earnings_snapshots, joined, runvars>>

RatioNext == RatioInsert

SpecRatio == InitRatio /\ [][RatioNext]_vars

-----------------------------------------------------------------------------
(* The Railway API client *)

\* What one POST to the GraphQL endpoint can bring back
ResponseKinds == {"ok", "no_data", "graphql_errors", "http_error", "network_error"}

\* RailwayAPIClient.execute_query: None on a RequestException (raise_for_status
\* included) and on "errors" in the body; otherwise the "data" of the body.
execute_query_any_status(response) ==
    IF response.kind \in {"network_error", "graphql_errors", "no_data"} THEN NULL
    ELSE Some(response.data)
execute_query(response) ==
    IF response.kind \in {"network_error", "http_error", "graphql_errors"} THEN NULL
    ELSE IF response.kind = "no_data" THEN NULL
    ELSE Some(response.data)

\* RailwayAPIClient.get_earnings_data: data["earningDetails"] or None
get_earnings_data(response) == execute_query(response)

\* RailwayAPIClient.get_workspace_templates: the nodes of the edges, or None
get_workspace_templates(response) == execute_query(response)

\* Python truth value of an Optional list or dict: None and empty are false
Truthy(optional) == ~IsNull(optional) /\ Val(optional) # <<>>

\* sum(t.get('totalPayout', 0) ...), sum(t.get('activeProjects', 0) ...) raise
\* TypeError on a None among the numbers.
SummaryRaises(tpls) ==
    \E i \in 1..Len(tpls) :
        \/ IsNull(Get(tpls[i], "totalPayout", Some(0)))
        \/ IsNull(Get(tpls[i], "activeProjects", Some(0)))

-----------------------------------------------------------------------------
(* Spec: runs of main(), one after the other *)

\* The clock readings at which a run may start
RunTimes == {1, Interval24h + 1}

RunBatches ==
    {<<>>,
     <<Record("a", 2, 1, 0, 300)>>,
     <<Record("a", 2, 2, 0, 500), Record("b", 2, 2, 0, 500)>>,
     <<[Record("a", 2, 2, 0, 500) EXCEPT !.totalPayout = NULL]>>,
     <<Record("a", 2, 2, 0, 500), [Record("b", 2, 2, 0, 500) EXCEPT !.projects = NULL]>>}

\* A response of status >= 400 may carry a body like that of a 2xx response.
TemplateResponses ==
    {[kind |-> k, data |-> <<>>] : k \in ResponseKinds \ {"ok"}}
        \cup {[kind |-> k, data |-> b] : k \in {"ok", "http_error"}, b \in RunBatches}

EarningsResponses ==
    {[kind |-> k, data |-> <<>>] : k \in ResponseKinds}
        \cup {[kind |-> k, data |-> [lifetimeEarnings |-> Some(1000)]] :
                k \in {"ok", "http_error"}}

\* sys.exit(code)
Exit(code) == pc' = "exited" /\ exit_code' = Some(code)

\* control passes on to the next step of the run
Goto(next) == pc' = next /\ UNCHANGED exit_code

\* The step `name` is executed and meets `input` (the environment, a response,
\* the outcome of a database call).
Step(name, input) == steps' = Append(steps, name) /\ met' = Append(met, input)

\* main(): start_time = datetime.now(timezone.utc); a run starts once the one
\* before it has exited, at a later clock reading.
StartAtFetch ==
    /\ pc \in {"idle", "exited"}
    /\ \E t \in RunTimes : t > now /\ now' = t /\ start_time' = t /\ at_start' = AtStart(t)
    /\ pc' = "get_earnings_data"
    /\ steps' = <<>>
    /\ met' = <<>>
    /\ exit_code' = NULL
    /\ warned' = FALSE
    /\ templates' = <<>>
    /\ earnings_data' = <<>>
    /\ UNCHANGED <<dbvars, joined, ret, call>>
Start ==
    /\ pc \in {"idle", "exited"}
    /\ \E t \in RunTimes : t > now /\ now' = t /\ start_time' = t /\ at_start' = AtStart(t)
    /\ pc' = "validate_environment"
    /\ steps' = <<>>
    /\ met' = <<>>
    /\ exit_code' = NULL
    /\ warned' = FALSE
    /\ templates' = <<>>
    /\ earnings_data' = <<>>
    /\ UNCHANGED <<dbvars, joined, ret, call>>

\* validate_environment(): sys.exit(1) when a required variable is unset or empty
validate_environment_unchecked(missing) == Goto("ensure_database_schema")
validate_environment(missing) ==
    IF missing THEN Exit(1) ELSE Goto("ensure_database_schema")

ValidateEnvironment ==
    /\ pc = "validate_environment"
    /\ \E missing \in BOOLEAN :
          /\ Step("validate_environment", IF missing THEN "missing" ELSE "ok")
          /\ validate_environment(missing)
    /\ UNCHANGED <<dbvars, joined, ret, call, templates, earnings_data, start_time, now,
                   warned, at_start>>

\* ensure_database_schema(): sys.exit(1) on any exception or a missing schema.sql
EnsureDatabaseSchema ==
    /\ pc = "ensure_database_schema"
    /\ \E failed \in BOOLEAN :
          /\ Step("ensure_database_schema", IF failed THEN "failed" ELSE "ok")
          /\ IF failed THEN Exit(1) ELSE Goto("validate_customer_id")
    /\ UNCHANGED <<dbvars, joined, ret, call, templates, earnings_data, start_time, now,
                   warned, at_start>>

\* validate_railway_credentials(), first request: sys.exit(1) on "errors" in the
\* body and on a RequestException; the status of the response is not looked at.
ValidateCustomerId ==
    /\ pc = "validate_customer_id"
    /\ \E kind \in ResponseKinds :
          /\ Step("validate_customer_id", kind)
          /\ IF kind \in {"graphql_errors", "network_error"} THEN Exit(1)
             ELSE Goto("validate_workspace_id")
    /\ UNCHANGED <<dbvars, joined, ret, call, templates, earnings_data, start_time, now,
                   warned, at_start>>

\* validate_railway_credentials(), second request
ValidateWorkspaceId ==
    /\ pc = "validate_workspace_id"
    /\ \E kind \in ResponseKinds :
          /\ Step("validate_workspace_id", kind)
          /\ IF kind \in {"graphql_errors", "network_error"} THEN Exit(1)
             ELSE Goto("get_earnings_data")
    /\ UNCHANGED <<dbvars, joined, ret, call, templates, earnings_data, start_time, now,
                   warned, at_start>>

\* fetch_railway_metrics(): earnings_data = client.get_earnings_data(...);
\* if not earnings_data: sys.exit(1)
FetchEarnings ==
    /\ pc = "get_earnings_data"
    /\ \E response \in EarningsResponses :
          LET fetched == get_earnings_data(response)
          IN  /\ Step("get_earnings_data", response.kind)
              /\ IF ~Truthy(fetched)
                 THEN Exit(1) /\ UNCHANGED earnings_data
                 ELSE earnings_data' = Val(fetched) /\ Goto("get_workspace_templates")
    /\ UNCHANGED <<dbvars, joined, ret, call, templates, start_time, now, warned, at_start>>

\* fetch_railway_metrics(): templates = client.get_workspace_templates(...);
\* if not templates: sys.exit(1); then the summary sums, whose TypeError ends
\* the run in main()'s except Exception with sys.exit(1).
FetchTemplates ==
    /\ pc = "get_workspace_templates"
    /\ \E response \in TemplateResponses :
          LET fetched == get_workspace_templates(response)
          IN  /\ Step("get_workspace_templates", response.kind)
              /\ IF ~Truthy(fetched)
                 THEN Exit(1) /\ UNCHANGED templates
                 ELSE /\ templates' = Val(fetched)
                      /\ IF SummaryRaises(Val(fetched)) THEN Exit(1) ELSE Goto("connect")
    /\ UNCHANGED <<dbvars, joined, ret, call, earnings_data, start_time, now, warned,
                   at_start>>

\* persist_metrics(): db.connect(); an exception ends the run with sys.exit(1)
Connect ==
    /\ pc = "connect"
    /\ \E failed \in BOOLEAN :
          /\ Step("connect", IF failed THEN "failed" ELSE "ok")
          /\ IF failed THEN Exit(1) ELSE Goto("insert_earnings_snapshot")
    /\ UNCHANGED <<dbvars, joined, ret, call, templates, earnings_data, start_time, now,
                   warned, at_start>>

\* persist_metrics(): if not db.insert_...(...): sys.exit(1)
OnSnapshotFailureContinue(failed, next) == Goto(next)
OnSnapshotFailureRetry(failed, next) == IF failed THEN Goto(pc) ELSE Goto(next)
OnSnapshotFailure(failed, next) == IF failed THEN Exit(1) ELSE Goto(next)

\* What a step that calls the database met: the call committed or it failed
Outcome(committed) == IF committed THEN "ok" ELSE "failed"

\* persist_metrics(): if not db.insert_earnings_snapshot(...): sys.exit(1)
StoreEarnings ==
    /\ pc = "insert_earnings_snapshot"
    /\ \E db_error \in BOOLEAN :
          /\ insert_earnings_snapshot(earnings_data, start_time, db_error)
          /\ Called("insert_earnings_snapshot", start_time, <<>>, db_error)
    /\ Step("insert_earnings_snapshot", Outcome(ret'))
    /\ OnSnapshotFailure(~ret', "insert_template_snapshots")
    /\ UNCHANGED <<template_snapshots, template_metrics_derived, joined, templates,
                   earnings_data, start_time, now, warned, at_start>>

\* persist_metrics(): if not db.insert_template_snapshots(...): sys.exit(1)
StoreTemplates ==
    /\ pc = "insert_template_snapshots"
    /\ \E db_error \in BOOLEAN :
          /\ insert_template_snapshots(templates, start_time, db_error)
          /\ Called("insert_template_snapshots", start_time, templates, db_error)
    /\ Step("insert_template_snapshots", Outcome(ret'))
    /\ OnSnapshotFailure(~ret', "calculate_derived_metrics")
    /\ UNCHANGED <<earnings_snapshots, template_metrics_derived, joined, templates,
                   earnings_data, start_time, now, warned, at_start>>

\* persist_metrics(): if not db.calculate_derived_metrics(...): logger.warning(...)
\* A failure changes neither the exit status nor the steps that follow.
OnDerivedFailureExit(failed) ==
    IF failed THEN Exit(1) /\ warned' = FALSE
    ELSE pc' = "summary" /\ warned' = FALSE /\ UNCHANGED exit_code
OnDerivedFailure(failed) ==
    /\ warned' = failed
    /\ pc' = "summary"
    /\ UNCHANGED exit_code

CalculateDerived ==
    /\ pc = "calculate_derived_metrics"
    /\ \E db_error \in BOOLEAN :
          /\ calculate_derived_metrics(start_time, db_error)
          /\ Called("calculate_derived_metrics", start_time, <<>>, db_error)
    /\ Step("calculate_derived_metrics", Outcome(ret'))
    /\ OnDerivedFailure(~ret')
    /\ UNCHANGED <<template_snapshots, earnings_snapshots, templates, earnings_data,
                   start_time, now, at_start>>

\* persist_metrics() returns and main() logs the success summary: exit status 0
Summary ==
    /\ pc = "summary"
    /\ Step("summary", "ok")
    /\ Exit(0)
    /\ UNCHANGED <<dbvars, joined, ret, call, templates, earnings_data, start_time, now,
                   warned, at_start>>

Next ==
    \/ Start
    \/ ValidateEnvironment
    \/ EnsureDatabaseSchema
    \/ ValidateCustomerId
    \/ ValidateWorkspaceId
    \/ FetchEarnings
    \/ FetchTemplates
    \/ Connect
    \/ StoreEarnings
    \/ StoreTemplates
    \/ CalculateDerived
    \/ Summary

Spec == Init /\ [][Next]_vars

-----------------------------------------------------------------------------
(* Properties of the derived-metrics statement (SpecTrend) *)

Horizons == {"24h", "7d", "30d"}
IntervalOf(h) == CASE h = "24h" -> Interval24h [] h = "7d" -> Interval7d [] h = "30d" -> Interval30d
PrevOf(j, h) == CASE h = "24h" -> j.prev_24h [] h = "7d" -> j.prev_7d [] h = "30d" -> j.prev_30d
GrowthOf(d, h) ==
    CASE h = "24h" -> d.revenue_growth_24h [] h = "7d" -> d.revenue_growth_7d
      [] h = "30d" -> d.revenue_growth_30d
ActiveChangeOf(d, h) ==
    CASE h = "24h" -> d.active_projects_change_24h [] h = "7d" -> d.active_projects_change_7d
      [] h = "30d" -> d.active_projects_change_30d

\* The state right after a derived-metrics statement that committed
JustCalculated == call.op = "calculate_derived_metrics" /\ ret

\* The derived rows the last statement wrote for the entity of the joined row j
RowsFor(j) ==
    {d \in template_metrics_derived :
        d.run = LastRun /\ d.template_id = j.current.template_id}

\* C1: the lookback window of every horizon H is half-open.  The row chosen as
\* prev_H is a snapshot of the same entity with T - H <= collected_at < T (so
\* never the current snapshot and never one a second older than T - H), and a
\* snapshot exactly at T - H is eligible: with one present, prev_H is not absent.
C1_HalfOpenWindow ==
    JustCalculated =>
        \A j \in joined, h \in Horizons :
            LET T == call.collected_at
                H == IntervalOf(h)
            IN  /\ j.current.collected_at = T
                /\ \A p \in PrevOf(j, h) :
                      /\ p.template_id = j.current.template_id
                      /\ p.collected_at >= T - H
                      /\ p.collected_at # T - H - 1
                      /\ p.collected_at < T
                      /\ p # j.current
                /\ \A s \in template_snapshots :
                      (s.template_id = j.current.template_id /\ s.collected_at = T - H)
                          => PrevOf(j, h) # {}

\* C1 witness: a statement at T chose, as prev_24h, the snapshot taken exactly
\* 24 hours before T while a snapshot one second older was in the table.
C1_Witness ==
    /\ JustCalculated
    /\ \E j \in joined :
          /\ \E p \in j.prev_24h : p.collected_at = call.collected_at - Interval24h
          /\ \E s \in template_snapshots :
                /\ s.template_id = j.current.template_id
                /\ s.collected_at = call.collected_at - Interval24h - 1

\* The snapshots of the entity of j inside the window [T - H, T)
WindowOf(j, h) ==
    {s \in template_snapshots :
        /\ s.template_id = j.current.template_id
        /\ call.collected_at - IntervalOf(h) <= s.collected_at
        /\ s.collected_at < call.collected_at}

\* C2: prev_H is the snapshot with the largest collected_at among those of the
\* entity inside the window, and is absent only when the window is empty.
C2_LatestInWindow ==
    JustCalculated =>
        \A j \in joined, h \in Horizons :
            /\ Cardinality(PrevOf(j, h)) <= 1
            /\ (PrevOf(j, h) = {}) <=> (WindowOf(j, h) = {})
            /\ \A p \in PrevOf(j, h) :
                  /\ p \in WindowOf(j, h)
                  /\ \A s \in WindowOf(j, h) : s.collected_at <= p.collected_at

\* C2 witness: two snapshots of one entity lay inside the 7-day window and the
\* later one was chosen.
C2_Witness ==
    /\ JustCalculated
    /\ \E j \in joined : \E p \in j.prev_7d : \E s \in WindowOf(j, "7d") :
          s.collected_at < p.collected_at

\* C3: for every horizon with prev_H present, the stored revenue growth is
\* current.total_payout - prev_H.total_payout and the stored active-projects
\* change is current.active_projects - prev_H.active_projects.
C3_GrowthIsDifference ==
    \A j \in joined :
        /\ RowsFor(j) # {}
        /\ \A d \in RowsFor(j), h \in Horizons : \A p \in PrevOf(j, h) :
              /\ d.calculated_at = j.current.collected_at
              /\ GrowthOf(d, h) = Some(Val(j.current.total_payout) - Val(p.total_payout))
              /\ ActiveChangeOf(d, h) =
                    Some(Val(j.current.active_projects) - Val(p.active_projects))

\* C3 witness: payout 500 now and 300 in the snapshot seven days before give a
\* 7-day revenue growth of 200.
C3_Witness ==
    \E j \in joined : \E d \in RowsFor(j) : \E p \in j.prev_7d :
        /\ p.collected_at = j.current.collected_at - Interval7d
        /\ j.current.total_payout = Some(500)
        /\ p.total_payout = Some(300)
        /\ d.revenue_growth_7d = Some(200)
        /\ d.active_projects_change_7d = Some(1)

\* The current snapshots of the statement that have no earlier snapshot
ColdStart ==
    {c \in template_snapshots :
        /\ c.collected_at = call.collected_at
        /\ ~\E s \in template_snapshots :
              s.template_id = c.template_id /\ s.collected_at < c.collected_at}

AllZero(d) ==
    /\ \A h \in Horizons : GrowthOf(d, h) = Some(0) /\ ActiveChangeOf(d, h) = Some(0)
    /\ d.avg_daily_revenue_7d = Some(0)
    /\ d.avg_daily_revenue_30d = Some(0)

C5_RealQuotient ==
    \A j \in joined : \A d \in RowsFor(j) :
        /\ \A p \in j.prev_7d :
              Val(d.avg_daily_revenue_7d) * Days7 =
                  Val(j.current.total_payout) - Val(p.total_payout)
        /\ \A p \in j.prev_30d :
              Val(d.avg_daily_revenue_30d) * Days30 =
                  Val(j.current.total_payout) - Val(p.total_payout)

-----------------------------------------------------------------------------
(* Properties of insert_template_snapshots (SpecWriter, SpecRatio) *)

\* C6: a call that repeats the timestamp and the entity set of the call before
\* it, which committed, commits too (unless the database raises) and leaves
\* the number of rows of template_snapshots as it was.
C6_Idempotent ==
    (call.op = "insert_template_snapshots" /\ call.repeat /\ ~call.db_error) =>
        /\ ret
        /\ Cardinality(template_snapshots) = call.rows_before

\* C6 witness: a second call for two entities at a timestamp already written
\* for them, with other values for one of them, committed.
C6_Witness ==
    /\ call.op = "insert_template_snapshots"
    /\ call.repeat
    /\ call.overwrite
    /\ call.ids = TemplateIds
    /\ ret
    /\ Cardinality(template_snapshots) >= 2

UniqueKey(table) ==
    \A r1 \in table, r2 \in table :
        (r1.collected_at = r2.collected_at /\ r1.template_id = r2.template_id) => r1 = r2

\* C7: the table holds at most one row per (collected_at, template_id); a call
\* changes no row already stored, whatever values its records carry, and a
\* record that meets a stored row does not make the call fail.
C7_ImmutableUnique ==
    [][/\ UniqueKey(template_snapshots')
       /\ template_snapshots \subseteq template_snapshots'
       /\ (call'.op = "insert_template_snapshots" /\ ~call'.db_error) => ret'
      ]_vars

\* C7 witness: a call carried a record whose key was stored with other values;
\* it committed and the table has as many rows as before.
C7_Witness ==
    /\ call.op = "insert_template_snapshots"
    /\ call.overwrite
    /\ ret
    /\ Cardinality(template_snapshots) = call.rows_before

\* x is num / den * 100 rounded to two decimals (x in hundredths of a percent)
IsRounded2Pct(x, num, den) ==
    LET diff == x * den - num * 10000
    IN  2 * (IF diff >= 0 THEN diff ELSE -diff) <= den

\* C8: every stored row holds the reference ratios of its own counters:
\* retention = active / projects * 100 to two decimals, 0 when projects = 0;
\* revenue-per-active = floor(payout / active), 0 when active = 0; momentum =
\* recent / active * 100 to two decimals, 0 when active = 0.  A record whose
\* counters are numbers is written whatever denominators are 0.
C8_Ratios ==
    /\ \A r \in template_snapshots :
          /\ IF Val(r.projects) = 0 THEN r.retention_rate = 0
             ELSE IsRounded2Pct(r.retention_rate, Val(r.active_projects), Val(r.projects))
          /\ IF Val(r.active_projects) = 0
             THEN r.revenue_per_active = 0 /\ r.growth_momentum = 0
             ELSE /\ r.revenue_per_active * Val(r.active_projects) <= Val(r.total_payout)
                  /\ Val(r.total_payout) < (r.revenue_per_active + 1) * Val(r.active_projects)
                  /\ IsRounded2Pct(r.growth_momentum, Val(r.recent_projects),
                                   Val(r.active_projects))
    /\ (/\ call.op = "insert_template_snapshots" /\ ~call.db_error
        /\ \A i \in 1..Len(templates) : \A k \in CounterKeys :
              k \in DOMAIN templates[i] /\ ~IsNull(templates[i][k]))
       => (ret /\ \A i \in 1..Len(templates) : \E r \in template_snapshots :
                      /\ r.template_id = templates[i].id
                      /\ r.projects = templates[i].projects
                      /\ r.active_projects = templates[i].activeProjects)

\* C8 witness: stored rows with 3 active projects, 2 recent ones and payout 500
\* (momentum 66.67, revenue-per-active 166) and with projects = 0.
C8_Witness ==
    \E r \in template_snapshots :
        /\ r.active_projects = Some(3) /\ r.recent_projects = Some(2)
        /\ r.total_payout = Some(500) /\ r.projects = Some(0)
        /\ r.growth_momentum = 6667 /\ r.revenue_per_active = 166
        /\ r.retention_rate = 0

\* The counter of a fetched record as the claim reads it: 0 when the key is
\* missing or its value is null
ZeroIfMissing(template, key) ==
    IF key \in DOMAIN template /\ ~IsNull(template[key]) THEN template[key] ELSE Some(0)

\* C9 as claimed: a counter that is missing or null counts as 0; unless the
\* database raises, the call commits and the row holds 0 for that counter.
C9_MissingOrNullIsZero ==
    (call.op = "insert_template_snapshots" /\ ~call.db_error) =>
        /\ ret
        /\ \A i \in 1..Len(templates) : \E r \in template_snapshots :
              /\ r.template_id = templates[i].id
              /\ r.collected_at = call.collected_at
              /\ r.projects = ZeroIfMissing(templates[i], "projects")
              /\ r.active_projects = ZeroIfMissing(templates[i], "activeProjects")
              /\ r.recent_projects = ZeroIfMissing(templates[i], "recentProjects")
              /\ r.total_payout = ZeroIfMissing(templates[i], "totalPayout")

-----------------------------------------------------------------------------
(* Properties of the run (Spec) *)

\* The run's derived-metrics step has been executed and has failed
DerivedStepFailed ==
    /\ \E i \in 1..Len(steps) : steps[i] = "calculate_derived_metrics"
    /\ call.op = "calculate_derived_metrics"
    /\ ~ret

NothingWritten ==
    /\ template_snapshots = at_start.template_snapshots
    /\ template_metrics_derived = at_start.template_metrics_derived
    /\ earnings_snapshots = at_start.earnings_snapshots

\* The steps that open a database connection or send an HTTP request
IOSteps ==
    {"ensure_database_schema", "validate_customer_id", "validate_workspace_id",
     "get_earnings_data", "get_workspace_templates", "connect",
     "insert_earnings_snapshot", "insert_template_snapshots", "calculate_derived_metrics"}

\* The run has checked its settings and found one of them unset or empty
ConfigMissing == steps # <<>> /\ steps[1] = "validate_environment" /\ met[1] = "missing"

\* C11: a run that finds a required setting missing or empty has exited with a
\* status other than 0 and has done no I/O: none of its steps opened a database
\* connection or sent an HTTP request, and the tables are as the run found them.
C11_ConfigErrorBeforeIO ==
    ConfigMissing =>
        /\ pc = "exited"
        /\ exit_code # NULL /\ Val(exit_code) # 0
        /\ \A i \in 1..Len(steps) : steps[i] \notin IOSteps
        /\ NothingWritten

\* C11 witness: the second run found a setting missing and has exited with
\* status 1, after a first run that wrote its snapshots.
C11_Witness ==
    /\ ConfigMissing
    /\ pc = "exited"
    /\ exit_code = Some(1)
    /\ earnings_snapshots # {}
    /\ template_snapshots # {}

FetchSteps == {"get_earnings_data", "get_workspace_templates"}

\* A network failure, a status >= 400, an error list in the response
FetchFailures == {"network_error", "http_error", "graphql_errors"}

\* The i-th step of the run is a fetch that failed
FetchFailedAt(i) == steps[i] \in FetchSteps /\ met[i] \in FetchFailures

\* C12: a fetch that met a network failure, a status >= 400 or an error list
\* is the last step of its run (so a failed earnings fetch is not followed by
\* the template fetch); the run has exited with a status other than 0 and has
\* written no earnings, template snapshot or derived row.
C12_FetchFailureIsFatal ==
    \A i \in 1..Len(steps) :
        FetchFailedAt(i) =>
            /\ i = Len(steps)
            /\ pc = "exited"
            /\ exit_code # NULL /\ Val(exit_code) # 0
            /\ NothingWritten

\* C12 witness: in a second run the earnings fetch succeeded and the template
\* fetch met a status >= 400; the run has exited with status 1 and the tables
\* hold the rows of the first run only.
C12_Witness ==
    /\ Len(steps) >= 2
    /\ steps[Len(steps)] = "get_workspace_templates"
    /\ met[Len(steps)] = "http_error"
    /\ met[Len(steps) - 1] = "ok"
    /\ pc = "exited"
    /\ exit_code = Some(1)
    /\ template_snapshots # {}
    /\ NothingWritten

SnapshotSteps == {"insert_earnings_snapshot", "insert_template_snapshots"}

\* The i-th step of the run is a snapshot write that failed
SnapshotFailedAt(i) == steps[i] \in SnapshotSteps /\ met[i] = "failed"

\* C13: a snapshot write that failed is the last step of its run: the run has
\* exited with a status other than 0, and the failed call is the last call made
\* on the database, so that no write step after it was invoked.
C13_SnapshotFailureAborts ==
    \A i \in 1..Len(steps) :
        SnapshotFailedAt(i) =>
            /\ i = Len(steps)
            /\ pc = "exited"
            /\ exit_code # NULL /\ Val(exit_code) # 0
            /\ call.op = steps[i]
            /\ ~ret

\* C13 witness: the template snapshot write failed on a record of its batch
\* after the earnings snapshot write of the run committed; the run exited 1.
C13_Witness ==
    /\ Len(steps) >= 2
    /\ SnapshotFailedAt(Len(steps))
    /\ steps[Len(steps)] = "insert_template_snapshots"
    /\ met[Len(steps) - 1] = "ok"
    /\ ~call.db_error
    /\ pc = "exited"
    /\ exit_code = Some(1)

\* C14 as claimed: a fetch fails only on a network failure, a status >= 400 or
\* an error list.  A fetch that met any other response (a 2xx response without
\* errors, whatever its list or record holds) does not end the run: the run goes
\* on to the steps after it.
C14_OnlyTransportFailuresFail ==
    \A i \in 1..Len(steps) :
        (steps[i] \in FetchSteps /\ met[i] \notin FetchFailures) =>
            ~(i = Len(steps) /\ pc = "exited")

\* How many times the run has executed the step `name`
Times(name) == Cardinality({i \in 1..Len(steps) : steps[i] = name})

\* C15: no retries.  No run issues an external call (an API request, a snapshot
\* write, the derived-metrics statement) a second time, whether the first
\* attempt failed or not, and a run that has completed has issued each of them
\* exactly once.
C15_NoRetries ==
    /\ \A name \in IOSteps : Times(name) <= 1
    /\ (pc = "exited" /\ exit_code = Some(0)) => \A name \in IOSteps : Times(name) = 1

\* C15 witness: a run has completed whose derived-metrics statement failed; the
\* statement was issued once and the run went on to its end.
C15_Witness ==
    /\ pc = "exited"
    /\ exit_code = Some(0)
    /\ \E i \in 1..Len(steps) : steps[i] = "calculate_derived_metrics" /\ met[i] = "failed"
    /\ \A name \in IOSteps : Times(name) = 1

-----------------------------------------------------------------------------
(* Further properties of the derived-metrics statement (SpecTrend) *)

\* The entities that have a template snapshot with collected_at = T
EntitiesAt(T) == {s.template_id : s \in {x \in template_snapshots : x.collected_at = T}}

\* C16: a derived-metrics statement for T that commits removes no derived row
\* and adds exactly one row, stamped T, for every entity that has a snapshot
\* with collected_at = T, and no row for any other entity.
C16_OneRowPerCurrentEntity ==
    [][(/\ call'.op = "calculate_derived_metrics"
        /\ ret'
        /\ template_snapshots' = template_snapshots)
       => LET T == call'.collected_at
              written == template_metrics_derived' \ template_metrics_derived
          IN  /\ template_metrics_derived \subseteq template_metrics_derived'
              /\ \A d \in written : d.calculated_at = T /\ d.template_id \in EntitiesAt(T)
              /\ \A e \in EntitiesAt(T) :
                    Cardinality({d \in written : d.template_id = e}) = 1
      ]_vars

\* C16 witness: a statement for T committed while entity "a" had a snapshot at T
\* and entity "b" only an older one; there is one derived row, for "a" at T.
C16_Witness ==
    /\ JustCalculated
    /\ EntitiesAt(call.collected_at) = {"a"}
    /\ \E s \in template_snapshots : s.template_id = "b" /\ s.collected_at < call.collected_at
    /\ \E s \in template_snapshots : s.template_id = "a" /\ s.collected_at < call.collected_at
    /\ Cardinality(template_metrics_derived) = 1
    /\ \A d \in template_metrics_derived :
          d.template_id = "a" /\ d.calculated_at = call.collected_at

-----------------------------------------------------------------------------
(* Further properties of the run (Spec) *)

\* C17: every write step is all-or-nothing.  A call of insert_template_snapshots
\* that fails, on the database or on one record of its batch, leaves
\* template_snapshots as it was before the call; a failed
\* insert_earnings_snapshot leaves earnings_snapshots and a failed
\* calculate_derived_metrics leaves template_metrics_derived as it was.
C17_AllOrNothing ==
    [][~ret' =>
          CASE call'.op = "insert_template_snapshots" ->
                  template_snapshots' = template_snapshots
            [] call'.op = "insert_earnings_snapshot" ->
                  earnings_snapshots' = earnings_snapshots
            [] call'.op = "calculate_derived_metrics" ->
                  template_metrics_derived' = template_metrics_derived
            [] OTHER -> TRUE
      ]_vars

\* C17 witness: insert_template_snapshots failed on the second record of a batch
\* of two, the first being well-formed, with no error of the database; no
\* template snapshot of the call's timestamp is stored.
C17_Witness ==
    /\ call.op = "insert_template_snapshots"
    /\ ~ret
    /\ ~call.db_error
    /\ Len(templates) = 2
    /\ ~TypeError(templates[1])
    /\ TypeError(templates[2])
    /\ ~\E r \in template_snapshots : r.collected_at = call.collected_at
    /\ \E e \in earnings_snapshots : e.collected_at = call.collected_at

\* The rows the run has added to each table since it started
EarningsWritten == earnings_snapshots \ at_start.earnings_snapshots
SnapshotsWritten == template_snapshots \ at_start.template_snapshots
DerivedWritten == template_metrics_derived \ at_start.template_metrics_derived

RunCompleted == pc = "exited" /\ exit_code = Some(0)

\* C18: the collection timestamp of a run is the one read when the run started,
\* before any step; every earnings, template snapshot and derived row the run
\* has written carries it; and a run that has completed has added exactly one
\* earnings row.
C18_OneTimestampPerRun ==
    /\ start_time = at_start.start_time
    /\ \A e \in EarningsWritten : e.collected_at = start_time
    /\ \A r \in SnapshotsWritten : r.collected_at = start_time
    /\ \A d \in DerivedWritten : d.calculated_at = start_time
    /\ RunCompleted =>
          /\ Cardinality(EarningsWritten) = 1
          /\ at_start.earnings_snapshots \subseteq earnings_snapshots

\* C18 witness: the second run has completed; it added one earnings row, two
\* template snapshot rows and two derived rows, which all carry its timestamp.
C18_Witness ==
    /\ RunCompleted
    /\ at_start.earnings_snapshots # {}
    /\ Cardinality(EarningsWritten) = 1
    /\ Cardinality(SnapshotsWritten) = 2
    /\ Cardinality(DerivedWritten) = 2
    /\ \A d \in DerivedWritten : d.calculated_at = start_time

\* The order the claim gives to the steps of a run
RunOrder ==
    <<"validate_environment", "ensure_database_schema",
      "validate_customer_id", "validate_workspace_id",
      "get_earnings_data", "get_workspace_templates",
      "connect", "insert_earnings_snapshot", "insert_template_snapshots",
      "calculate_derived_metrics", "summary">>

IsPrefix(p, q) == Len(p) <= Len(q) /\ \A i \in 1..Len(p) : p[i] = q[i]

\* C19: the steps a run has executed are an initial part of the fixed order (so
\* none is executed twice or out of turn, and the schema bootstrap comes before
\* every fetch); the step a run is about to execute is the next one of that
\* order; and the derived-metrics calculation is only executed right after a
\* template snapshot write of the same run that committed, the snapshots of
\* the fetched entities being stored under the run's timestamp.
C19_StepOrder ==
    /\ IsPrefix(steps, RunOrder)
    /\ pc \notin {"idle", "exited"} =>
          (Len(steps) < Len(RunOrder) /\ pc = RunOrder[Len(steps) + 1])
    /\ \A i \in 1..Len(steps) :
          steps[i] = "calculate_derived_metrics" =>
              /\ i > 1
              /\ steps[i - 1] = "insert_template_snapshots"
              /\ met[i - 1] = "ok"
              /\ \A k \in 1..Len(templates) : \E r \in template_snapshots :
                    r.collected_at = start_time /\ r.template_id = templates[k].id

\* C19 witness: the second run has executed every step of the order, the
\* derived-metrics calculation after its template snapshot write committed.
C19_Witness ==
    /\ steps = RunOrder
    /\ pc = "exited"
    /\ at_start.template_snapshots # {}
    /\ \A i \in 1..Len(met) : met[i] = "ok"
    /\ DerivedWritten # {}

-----------------------------------------------------------------------------
(* Nesting of the lookback windows (SpecTrend) *)

SameDeltas(d, h1, h2) ==
    GrowthOf(d, h1) = GrowthOf(d, h2) /\ ActiveChangeOf(d, h1) = ActiveChangeOf(d, h2)

\* C20: the snapshots chosen for the three horizons are nested.  With prev_24h
\* present, prev_7d and prev_30d are that same snapshot and the derived row
\* holds one revenue growth and one active-projects change for all three
\* horizons; with prev_7d present, prev_30d is that same snapshot and the 7d and
\* 30d deltas are equal; a delta of a longer horizon differs from that of a
\* shorter one only when no snapshot lies in the shorter window.
C20_NestedWindows ==
    JustCalculated =>
        \A j \in joined :
            /\ j.prev_24h # {} => (j.prev_7d = j.prev_24h /\ j.prev_30d = j.prev_24h)
            /\ j.prev_7d # {} => j.prev_30d = j.prev_7d
            /\ \A d \in RowsFor(j) :
                  /\ j.prev_24h # {} => (SameDeltas(d, "24h", "7d") /\ SameDeltas(d, "24h", "30d"))
                  /\ j.prev_7d # {} => SameDeltas(d, "7d", "30d")
                  /\ ~SameDeltas(d, "24h", "7d") => WindowOf(j, "24h") = {}
                  /\ ~SameDeltas(d, "24h", "30d") => WindowOf(j, "24h") = {}
                  /\ ~SameDeltas(d, "7d", "30d") => WindowOf(j, "7d") = {}

\* C20 witness: an entity had a snapshot inside the 24-hour window and an older
\* one inside the 7-day window with another payout; the later one was chosen
\* for all three horizons and the three revenue growths are -200.
C20_Witness ==
    /\ JustCalculated
    /\ \E j \in joined : \E p \in j.prev_24h : \E s \in WindowOf(j, "7d") :
          /\ s.collected_at < p.collected_at
          /\ s.total_payout # p.total_payout
          /\ j.prev_7d = {p} /\ j.prev_30d = {p}
          /\ \E d \in RowsFor(j) : \A h \in Horizons : GrowthOf(d, h) = Some(-200)

-----------------------------------------------------------------------------
(* The write steps of a run are separate transactions (Spec) *)

\* The template snapshot write of the run was its last step and failed
TemplateWriteFailed ==
    /\ steps # <<>>
    /\ steps[Len(steps)] = "insert_template_snapshots"
    /\ met[Len(steps)] = "failed"

\* C21: no atomicity across the write steps.  When the template snapshot write
\* of a run fails, the run has exited with a status other than 0 and the
\* earnings row it wrote before stays committed: the store holds one earnings
\* row of the run's timestamp, and neither a template snapshot row nor a
\* derived row of that timestamp.
C21_EarningsRowSurvives ==
    TemplateWriteFailed =>
        /\ pc = "exited"
        /\ exit_code # NULL /\ Val(exit_code) # 0
        /\ Cardinality(EarningsWritten) = 1
        /\ \A e \in EarningsWritten : e.collected_at = start_time
        /\ ~\E r \in template_snapshots : r.collected_at = start_time
        /\ ~\E d \in template_metrics_derived : d.calculated_at = start_time

\* C21 witness: in a second run the database failed the template snapshot
\* write; the run has exited with status 1, the table holds the earnings rows of
\* both runs and the template snapshots of the first run only.
C21_Witness ==
    /\ TemplateWriteFailed
    /\ call.db_error
    /\ pc = "exited"
    /\ exit_code = Some(1)
    /\ Cardinality(earnings_snapshots) = 2
    /\ \E e \in earnings_snapshots : e.collected_at = start_time
    /\ template_snapshots # {}
    /\ SnapshotsWritten = {}

-----------------------------------------------------------------------------
(* Entities do not interfere in the derived metrics (SpecTrend) *)

\* The snapshots of entity e: the part of the store on which any two stores
\* that agree on the snapshots of e agree
Own(e) == {s \in template_snapshots : s.template_id = e}

\* The growth deltas, active-projects changes and rolling averages of a derived row
Values(d) ==
    [revenue_growth_24h |-> d.revenue_growth_24h,
     revenue_growth_7d |-> d.revenue_growth_7d,
     revenue_growth_30d |-> d.revenue_growth_30d,
     active_projects_change_24h |-> d.active_projects_change_24h,
     active_projects_change_7d |-> d.active_projects_change_7d,
     active_projects_change_30d |-> d.active_projects_change_30d,
     avg_daily_revenue_7d |-> d.avg_daily_revenue_7d,
     avg_daily_revenue_30d |-> d.avg_daily_revenue_30d]

\* The latest snapshot among `own` inside the window [T - interval, T)
LatestIn(own, T, interval) ==
    OrderDescLimit1({s \in own : InWindow(s.collected_at, T, interval)})

\* The derived values at T as a function of the snapshots `own` of one entity
\* alone: nothing else of the store is read.
ValuesFrom(own, T) ==
    LET cur == CHOOSE s \in own : s.collected_at = T
    IN  Values(DerivedRow([current |-> cur,
                           prev_24h |-> LatestIn(own, T, Interval24h),
                           prev_7d |-> LatestIn(own, T, Interval7d),
                           prev_30d |-> LatestIn(own, T, Interval30d)], T, 0))

\* C22: the derived values written for entity e at T are a function of the
\* snapshots of e alone: they are what the snapshots of e give when every
\* snapshot of the other entities is left out of the store.  Hence two stores
\* that agree on the snapshots of e yield the same derived values for e,
\* whatever they hold for other entities.
C22_NoInterference ==
    JustCalculated =>
        \A j \in joined :
            /\ RowsFor(j) # {}
            /\ \A d \in RowsFor(j) :
                  Values(d) = ValuesFrom(Own(j.current.template_id), call.collected_at)

\* C22 witness: at T entity "a" had no snapshot of its own inside the 24-hour
\* window while a snapshot of "b", whose payout differs from the current one of
\* "a", lay inside it, later than the snapshot of "a" in the 7-day window; the
\* row of "a" holds a 24-hour growth of 0 and the 7-day growth against its own
\* snapshot.
C22_Witness ==
    /\ JustCalculated
    /\ \E j \in joined : \E d \in RowsFor(j) : \E p \in j.prev_7d :
          /\ j.current.template_id = "a"
          /\ j.prev_24h = {}
          /\ \E s \in template_snapshots :
                /\ s.template_id = "b"
                /\ InWindow(s.collected_at, call.collected_at, Interval24h)
                /\ s.collected_at > p.collected_at
                /\ s.total_payout # j.current.total_payout
          /\ d.revenue_growth_24h = Some(0)
          /\ d.revenue_growth_7d = Some(-200)

====
